---- MODULE Spec2Model ----
(***************************************************************************)
(* Model of the ghttp request pipeline: Client.Do with its before-request  *)
(* and after-response hooks, the retry loop Client.doWithRetry, the        *)
(* Retrier, the request body (Request.SetBody / drainBody), the            *)
(* regexpLimiter, the verb methods of Client and the methods of Response.  *)
(*                                                                         *)
(* Spec follows one Do call on one Client.  The transport, the limiter's   *)
(* Wait, the hooks, reads of a stream body and the request's context are   *)
(* the environment: their outcomes are chosen nondeterministically.        *)
(* SpecHooks is the same call on a client with longer hook chains,         *)
(* SpecVerbs starts it from a verb method, SpecResp goes on with the       *)
(* methods called on the returned Response, SpecLimit runs concurrent      *)
(* calls against the limiter's token bucket and SpecAllow evaluates        *)
(* regexpLimiter.Allow.  SpecBackoff calls Backoff.WaitTime attempt after  *)
(* attempt, SpecOn evaluates Retrier.on, SpecBody calls Request.SetBody    *)
(* and GetBody on one request, and SpecShared makes several requests on    *)
(* one client with one Retrier and one backoff strategy.  SpecLive is the  *)
(* Do call under weak fairness, SpecRegen a Do call of a request whose     *)
(* GetBody fails, and SpecSend starts from Client.Send with its request    *)
(* options, among them SetMultipart with its writer goroutine.             *)
(***************************************************************************)
EXTENDS Integers, Sequences, FiniteSets, TLC

VARIABLES
    pc,               \* position of the Do call
    req,              \* Request: [Body, ContentLength, GetBody]
    retrier,          \* req.retrier: [set, maxAttempts, triggers]
    url,              \* req.URL.String()
    limiter,          \* Client.limiter: [attached, urlPatterns]
    nBefore,          \* len(c.beforeRequestHooks)
    nAfter,           \* len(c.afterResponseHooks)
    ctxDone,          \* req.Context() is cancelled or expired
    i,                \* loop variable of doWithRetry
    resp,             \* Response: [status, err]; status 0 is a nil *http.Response
    timer,            \* the time.After channel of the backoff select
    \* history of the call, read by the properties only
    origBody,         \* the body the request was built with
    attempts,         \* number of calls of Client.do
    sent,             \* the body content presented to the transport, per attempt
    results,          \* the result of each attempt
    beforeRun,        \* the before-request hooks that ran, in the order they ran
    afterRun,         \* the after-response hooks that ran, in the order they ran
    beforeFailing,    \* the before-request hooks that return an error when called
    afterFailing,     \* the after-response hooks that return an error when called
    allowCalls,       \* calls of limiter.Allow
    allowRes,         \* what the last Allow call returned
    waitCalls,        \* calls of limiter.Wait
    waitRes,          \* what limiter.Wait returned ("none" before it returns)
    permits,          \* limiter permits consumed by this call
    admitted,         \* admission succeeded (doWithRetry reached its loop)
    backoffCalls,     \* the arguments of each call of Backoff.WaitTime
    cancelAt,         \* where the call was when the context fired ("none" if it has not)
    attemptsAtCancel, \* attempts started at the moment the context fired
    \* regexpLimiter.Allow as a function under test
    rlPatterns,       \* rl.urlPatterns
    rlURL,            \* req.URL.String()
    rlOut,            \* "none" before the call, then "true" or "false"
    \* concurrent Get calls on one client with a rate limiter
    rq,               \* position of each call
    burst,            \* the burst of the limiter's token bucket
    tokens,           \* permits in the bucket
    now,              \* time, counted in permit periods (1/rate seconds)
    started,          \* transport attempts started so far
    \* the Response after Do returned it, and the methods called on it
    content,          \* resp.content: [set, data]; set is content != nil
    bodyRead,         \* resp.Body has been read
    method,           \* the last method called on the response ("none" at first)
    ret,              \* the error it returned, or the Err() of the response it returned
    calls,            \* number of methods called
    \* the method of Client that made the request
    client,           \* the client the method is called on: [limiter, nBefore, nAfter]
    verb,             \* the method called ("Do" when Do is called directly)
    via,              \* the client whose Do runs the pipeline
    \* Backoff.WaitTime as doWithRetry calls it: attempt 0, 1, 2, ...
    bo,               \* the strategy: [kind, initialDuration, maxDuration, jitter]
    boNum,            \* attemptNum of the next call
    boPrev,           \* what the call before the last one did
    boOut,            \* what the last call did: [state, value]
    \* Retrier.on as a function under test
    onTriggers,       \* r.triggers
    onResp,           \* the response on is called with
    onSeen,           \* the triggers called, in the order they were called
    onOut,            \* "none" before the call, then "true" or "false"
    \* Request.SetBody and req.GetBody called on one request
    sbReq,            \* the request: [Body, ContentLength, GetBody]
    sbLast,           \* the argument of the last SetBody call
    sbSets,           \* number of SetBody calls
    sbGets,           \* number of GetBody calls since the last SetBody
    sbGot,            \* what the last GetBody call returned
    \* requests made one after the other on one client
    runs,             \* number of Do calls made on the client
    sharedRt,         \* the Retrier every request is given
    opts,             \* the options Send is called with
    applied,          \* number of options that ran and returned nil
    mp                \* SetMultipart's goroutine: [started, files, closed, state, isBody]

pipeVars == <<pc, req, retrier, url, limiter, nBefore, nAfter, ctxDone, i, resp,
              timer, origBody, attempts, sent, results, beforeRun, afterRun,
              allowCalls, allowRes, waitCalls, waitRes, permits, admitted,
              backoffCalls, cancelAt, attemptsAtCancel, beforeFailing,
              afterFailing>>
hookEnv == <<beforeFailing, afterFailing>>
allowVars == <<rlPatterns, rlURL, rlOut>>
\* what the actions of Client.Do leave alone
limitVars == <<rq, burst, tokens, now, started>>
respVars == <<content, bodyRead, method, ret, calls>>
verbVars == <<client, verb, via>>
backoffVars == <<bo, boNum, boPrev, boOut>>
onVars == <<onTriggers, onResp, onSeen, onOut>>
bodyVars == <<sbReq, sbLast, sbSets, sbGets, sbGot>>
sharedVars == <<runs, sharedRt>>
sendVars == <<opts, applied, mp>>
funVars == <<backoffVars, onVars, bodyVars, sharedVars, sendVars>>
auxVars == <<allowVars, limitVars, respVars, verbVars, funVars>>
vars == <<pipeVars, auxVars>>

----------------------------------------------------------------------------
(* Bounds of the model *)

MaxAttempts == 3
MaxBodyLen == 2
MaxHooks == 1
MaxURLLen == 3
MaxPatterns == 2
MaxRequests == 3
MaxBurst == 3
MaxTicks == 3
MaxCalls == 2
MaxDuration == 5
MaxIndex == 3
MaxTriggers == 3
MaxSets == 3
MaxGets == 2
MaxRuns == 2

----------------------------------------------------------------------------
(* Values *)

NoErr == "nil"

\* A body's content: the first n bytes of 1, 2, 3, ...
Content(n) == [k \in 1..n |-> k]

\* The arguments Request.SetBody is called with.  data is the unread part:
\* what Len() counts and what a snapshot of the reader yields.
InMemoryTypes == {"Buffer", "BytesReader", "StringsReader"}
NilReader == [type |-> "nil", data |-> <<>>]
BodyArgs ==
    {NilReader}
    \cup {[type |-> "Buffer", data |-> Content(n)] : n \in 0..MaxBodyLen}
    \cup {[type |-> "stream", data |-> Content(n)] : n \in 0..MaxBodyLen}

\* io.ReadCloser values of req.Body: nil, http.NoBody, or a reader with
\* its unread content.
NilBody == [kind |-> "nil", data |-> <<>>]
NoBody == [kind |-> "NoBody", data |-> <<>>]
NoGetBody == [set |-> FALSE, kind |-> "nil", data |-> <<>>]
\* A GetBody closure: it returns a reader over data, or http.NoBody.
GetReader(data) == [set |-> TRUE, kind |-> "reader", data |-> data]
GetNoBody == [set |-> TRUE, kind |-> "NoBody", data |-> <<>>]
\* A GetBody the caller has put on the request, which returns an error.
GetFailing == [set |-> TRUE, kind |-> "error", data |-> <<>>]

\* http.NewRequest(method, url, nil)
NewRawRequest == [Body |-> NilBody, ContentLength |-> 0, GetBody |-> NoGetBody]

TriggerLists ==
    {<<>>, <<"always">>, <<"onError">>, <<"notOK">>, <<"never", "notOK">>}

NoRetrier == [set |-> FALSE, maxAttempts |-> 0, triggers |-> <<>>]
noRetry == [set |-> TRUE, maxAttempts |-> 1, triggers |-> <<>>]
NewRetrier(maxAttempts, triggers) ==
    [set |-> TRUE, maxAttempts |-> maxAttempts, triggers |-> triggers]
Retriers ==
    {NoRetrier}
    \cup {NewRetrier(m, t) : m \in (0 - 1)..MaxAttempts, t \in TriggerLists}

\* What a transport attempt can return: a response, a transport error, or a
\* response whose gzip body cannot be opened (Client.do returns both).
StatusOK == 200
StatusServerError == 500
NoResponse == [status |-> 0, err |-> NoErr]
Outcomes ==
    { [status |-> StatusOK, err |-> NoErr],
      [status |-> StatusServerError, err |-> NoErr],
      [status |-> 0, err |-> "transport"],
      [status |-> StatusOK, err |-> "gzip"] }
CtxOutcome == [status |-> 0, err |-> "ctx"]

\* URLs and URL patterns are strings over a two-letter alphabet; a pattern
\* is a literal, matched anywhere in the URL as regexp.MatchString does.
Letters == {"a", "b"}
SeqsUpTo(S, n) == UNION {[1..k -> S] : k \in 0..n}
URLs == SeqsUpTo(Letters, MaxURLLen) \ {<<>>}
Patterns == {<<"a">>, <<"b">>, <<"a", "b">>}
PatternLists == SeqsUpTo(Patterns, MaxPatterns)

NoLimiter == [attached |-> FALSE, urlPatterns |-> <<>>]
NewRegexpLimiter(urlPatterns) == [attached |-> TRUE, urlPatterns |-> urlPatterns]

----------------------------------------------------------------------------
(* Request.SetBody, drainBody *)

toReadCloser(body) ==
    IF body.type = "nil" THEN NilBody ELSE [kind |-> "reader", data |-> body.data]

\* A SetBody that leaves out the replacement by http.NoBody.
SetBodyWithoutSentinel(r, body) ==
    LET r1 == [r EXCEPT !.Body = toReadCloser(body)]
    IN  IF body.type \in InMemoryTypes
          THEN [r1 EXCEPT !.ContentLength = Len(body.data),
                          !.GetBody = GetReader(body.data)]
          ELSE r1

SetBody(r, body) ==
    LET r1 == [r EXCEPT !.Body = toReadCloser(body)]
        r2 == IF body.type \in InMemoryTypes
                THEN [r1 EXCEPT !.ContentLength = Len(body.data),
                                !.GetBody = GetReader(body.data)]
                ELSE r1
    IN  IF body.type = "nil" THEN r1
        ELSE IF r2.GetBody.set /\ r2.ContentLength = 0
               THEN [r2 EXCEPT !.Body = NoBody, !.GetBody = GetNoBody]
               ELSE r2

\* The buffer drainBody returns when every read succeeds.
drainBody(body) == [type |-> "Buffer", data |-> body.data]

\* doWithRetry buffers the body when this holds.
NeedsDrain(rt, r) ==
    rt.set /\ rt.maxAttempts > 1 /\ r.Body.kind # "nil" /\ ~r.GetBody.set

\* A retry that sends the body the previous attempt left behind.
RegenerateBodySkipped(r) == r

\* req.Body, _ = req.GetBody(), when GetBody is set.  The error GetBody
\* returns is dropped, and the nil reader it returns with it becomes the body.
RegenerateBody(r) ==
    IF ~r.GetBody.set THEN r
    ELSE IF r.GetBody.kind = "error" THEN [r EXCEPT !.Body = NilBody]
    ELSE [r EXCEPT !.Body = [kind |-> r.GetBody.kind, data |-> r.GetBody.data]]

\* The transport reads the body to its end.
ConsumeBody(r) ==
    IF r.Body.kind = "reader" THEN [r EXCEPT !.Body.data = <<>>] ELSE r

----------------------------------------------------------------------------
(* Retrier.on *)

Trigger(kind, rs) ==
    CASE kind = "always" -> TRUE
      [] kind = "never" -> FALSE
      [] kind = "onError" -> rs.err # NoErr
      [] kind = "notOK" -> rs.err # NoErr \/ rs.status # StatusOK

\* A loop that wants every trigger to return true.
EveryTrigger(triggers, rs) ==
    \A k \in 1..Len(triggers) : Trigger(triggers[k], rs)

RECURSIVE AnyTrigger(_, _)
AnyTrigger(triggers, rs) ==
    IF triggers = <<>> THEN FALSE
    ELSE IF Trigger(Head(triggers), rs) THEN TRUE
    ELSE AnyTrigger(Tail(triggers), rs)

on(rt, rs) ==
    IF Len(rt.triggers) = 0 THEN FALSE ELSE AnyTrigger(rt.triggers, rs)

\* The triggers the loop of on calls, by position, in the order of the calls:
\* for _, trigger := range r.triggers { if trigger(resp) { return true } }
RECURSIVE TriggersCalled(_, _, _)
TriggersCalled(triggers, rs, k) ==
    IF k > Len(triggers) THEN <<>>
    ELSE IF Trigger(triggers[k], rs) THEN <<k>>
    ELSE <<k>> \o TriggersCalled(triggers, rs, k + 1)

----------------------------------------------------------------------------
(* regexpLimiter.Allow *)

\* pattern.MatchString(s) for a literal pattern: it occurs somewhere in s.
MatchString(pattern, s) ==
    \E k \in 0..(Len(s) - Len(pattern)) :
        SubSeq(s, k + 1, k + Len(pattern)) = pattern

RECURSIVE NoneMatches(_, _)
NoneMatches(urlPatterns, s) ==
    IF urlPatterns = <<>> THEN TRUE
    ELSE IF MatchString(Head(urlPatterns), s) THEN FALSE
    ELSE NoneMatches(Tail(urlPatterns), s)

\* A limiter without patterns that lets every request bypass it.
AllowEmptyBypasses(urlPatterns, s) == NoneMatches(urlPatterns, s)

Allow(urlPatterns, s) ==
    IF Len(urlPatterns) = 0 THEN FALSE ELSE NoneMatches(urlPatterns, s)

\* A pipeline that never waits for the limiter.
MustWaitNever(lim, s) == FALSE

\* A pipeline that waits whenever a limiter is attached.
MustWaitAlways(lim, s) == lim.attached

\* c.limiter != nil && !c.limiter.Allow(req.Request)
MustWait(lim, s) == lim.attached /\ ~Allow(lim.urlPatterns, s)

----------------------------------------------------------------------------
(* The initial state: a request built by NewRequest with a body and a      *)
(* retrier, on a client with hooks and a limiter.                          *)

PipeURL == <<"a">>
PipeLimiters ==
    {NoLimiter, NewRegexpLimiter(<<>>), NewRegexpLimiter(<< <<"a">> >>),
     NewRegexpLimiter(<< <<"b">> >>)}

InitHistory ==
    /\ attempts = 0
    /\ sent = <<>>
    /\ results = <<>>
    /\ beforeRun = <<>>
    /\ afterRun = <<>>
    /\ beforeFailing = {}
    /\ afterFailing = {}
    /\ allowCalls = 0
    /\ allowRes = FALSE
    /\ waitCalls = 0
    /\ waitRes = "none"
    /\ permits = 0
    /\ admitted = FALSE
    /\ backoffCalls = <<>>
    /\ cancelAt = "none"
    /\ attemptsAtCancel = 0

InitPipe(bodies, retriers, limiters, hooks) ==
    /\ pc = "before"
    /\ origBody \in bodies
    /\ req = SetBody(NewRawRequest, origBody)
    /\ retrier \in retriers
    /\ url = PipeURL
    /\ limiter \in limiters
    /\ nBefore \in hooks
    /\ nAfter \in hooks
    /\ ctxDone = FALSE
    /\ i = 0
    /\ resp = NoResponse
    /\ timer = "off"
    /\ InitHistory

InitAllowIdle ==
    /\ rlPatterns = <<>>
    /\ rlURL = PipeURL
    /\ rlOut = "none"

Requests == 1..MaxRequests

InitLimitIdle ==
    /\ rq = [p \in Requests |-> "done"]
    /\ burst = 1
    /\ tokens = 1
    /\ now = 0
    /\ started = 0

\* resp := new(Response)
NoContent == [set |-> FALSE, data |-> <<>>]

InitRespIdle ==
    /\ content = NoContent
    /\ bodyRead = FALSE
    /\ method = "none"
    /\ ret = "none"
    /\ calls = 0

\* Do is called on the client itself.
InitDirect ==
    /\ client = [limiter |-> limiter, nBefore |-> nBefore, nAfter |-> nAfter]
    /\ verb = "Do"
    /\ via = "c"

----------------------------------------------------------------------------
(* The backoff strategies.  Durations are counted in nanoseconds and are   *)
(* not negative; they stay far below 2^53, where the float64 arithmetic    *)
(* of exponentialBackoff.WaitTime is exact.                                *)

Durations == 0..MaxDuration

\* &constantBackoff{initialDuration, jitter}; a constantBackoff has no
\* maxDuration, the field is kept at 0 to give both strategies one shape.
NewConstantBackoff(initialDuration, jitter) ==
    [kind |-> "constant", initialDuration |-> initialDuration,
     maxDuration |-> 0, jitter |-> jitter]

\* &exponentialBackoff{initialDuration, maxDuration, jitter}
NewExponentialBackoff(initialDuration, maxDuration, jitter) ==
    [kind |-> "exponential", initialDuration |-> initialDuration,
     maxDuration |-> maxDuration, jitter |-> jitter]

Backoffs ==
    { NewConstantBackoff(d, j) : d \in Durations, j \in BOOLEAN } \cup
    { NewExponentialBackoff(bk[1], bk[2], j) :
        bk \in Durations \X Durations, j \in BOOLEAN }

\* What a call does: it returns a value or it panics.
NotCalled == [state |-> "none", value |-> 0]
Panicked == [state |-> "panic", value |-> 0]
Returned(v) == [state |-> "ret", value |-> v]

\* A draw that may reach n itself.
Int63nInclusive(n) ==
    IF n <= 0 THEN {Panicked} ELSE { Returned(r) : r \in 0..n }

\* rand.Int63n(n): panics if n <= 0, else returns some r with 0 <= r < n.
Int63n(n) ==
    IF n <= 0 THEN {Panicked} ELSE { Returned(r) : r \in 0..(n - 1) }

\* A draw that is not added to its base.
PlusInt63nWithoutBase(base, n) == Int63n(n)

\* base + rand.Int63n(n)
PlusInt63n(base, n) ==
    { IF o.state = "ret" THEN Returned(base + o.value) ELSE o : o \in Int63n(n) }

\* A minimum that keeps its second argument.
MinIgnored(x, y) == y

\* math.Min(x, y)
Min(x, y) == IF x <= y THEN x ELSE y

\* A constantBackoff that adds jitter whether asked to or not.
constantWaitTimeAlwaysJitter(cb) ==
    PlusInt63n(cb.initialDuration \div 2, cb.initialDuration)

\* (cb *constantBackoff) WaitTime(_ int, _ *Response)
constantWaitTime(cb) ==
    IF ~cb.jitter
    THEN {Returned(cb.initialDuration)}
    ELSE PlusInt63n(cb.initialDuration \div 2, cb.initialDuration)

\* A delay that doubles without a cap.
CappedNever(eb, attemptNum) == eb.initialDuration * 2^attemptNum

\* The value of temp in (eb *exponentialBackoff) WaitTime.
Capped(eb, attemptNum) ==
    Min(eb.maxDuration, eb.initialDuration * 2^attemptNum)

\* Jitter added to the whole capped delay instead of its half.
exponentialWaitTimeOnWhole(eb, attemptNum) ==
    LET temp == Min(eb.maxDuration, eb.initialDuration * 2^attemptNum)
    IN  IF ~eb.jitter THEN {Returned(temp)} ELSE PlusInt63n(temp, temp)

\* (eb *exponentialBackoff) WaitTime(attemptNum int, _ *Response)
exponentialWaitTime(eb, attemptNum) ==
    LET temp == Capped(eb, attemptNum)
        n == temp \div 2
    IN  IF ~eb.jitter THEN {Returned(temp)} ELSE PlusInt63n(n, n)

\* Backoff.WaitTime(attemptNum, resp): the outcomes of one call.
WaitTime(b, attemptNum, rs) ==
    IF b.kind = "constant"
    THEN constantWaitTime(b)
    ELSE exponentialWaitTime(b, attemptNum)

InitBackoffIdle ==
    /\ bo = NewConstantBackoff(0, FALSE)
    /\ boNum = 0
    /\ boPrev = NotCalled
    /\ boOut = NotCalled

\* A Retrier without triggers, and no call of on yet.
InitOnIdle ==
    /\ onTriggers = <<>>
    /\ onResp = NoResponse
    /\ onSeen = <<>>
    /\ onOut = "none"

\* A request as http.NewRequest makes it, SetBody not called yet.
InitBodyIdle ==
    /\ sbReq = NewRawRequest
    /\ sbLast = NilReader
    /\ sbSets = 0
    /\ sbGets = 0
    /\ sbGot = NilBody

\* The only Do call on the client; no Retrier is kept for later requests.
InitSharedIdle ==
    /\ runs = 1
    /\ sharedRt = NoRetrier

\* No SetMultipart call has been made: there is no goroutine.
NoWriter ==
    [started |-> FALSE, files |-> 0, closed |-> 0, state |-> "none",
     isBody |-> FALSE]

\* The request was built by the caller, with no option of the model.
InitSendIdle ==
    /\ opts = <<>>
    /\ applied = 0
    /\ mp = NoWriter

\* Everything outside the Do call is idle.
InitFunIdle ==
    /\ InitBackoffIdle
    /\ InitOnIdle
    /\ InitBodyIdle
    /\ InitSharedIdle
    /\ InitSendIdle

----------------------------------------------------------------------------
(* One Do call on one client *)

Init ==
    /\ InitPipe(BodyArgs, Retriers, PipeLimiters, 0..MaxHooks)
    /\ InitAllowIdle
    /\ InitLimitIdle
    /\ InitRespIdle
    /\ InitDirect
    /\ InitFunIdle

----------------------------------------------------------------------------
(* The context *)

\* The points where a Do call blocks: the limiter's Wait, the transport call
\* and the backoff select.
SuspensionPoints == {"wait", "inflight", "backoff"}

\* The request's context is cancelled or its deadline passes.
Cancel ==
    /\ pc # "done"
    /\ ~ctxDone
    /\ ctxDone' = TRUE
    /\ cancelAt' = IF pc \in SuspensionPoints THEN pc ELSE "running"
    /\ attemptsAtCancel' = attempts
    /\ UNCHANGED <<pc, req, retrier, url, limiter, nBefore, nAfter, i, resp,
                   timer, origBody, attempts, sent, results, beforeRun,
                   afterRun, allowCalls, allowRes, waitCalls, waitRes, permits,
                   admitted, backoffCalls, hookEnv,
                   auxVars>>

----------------------------------------------------------------------------
(* Client.Do *)

\* for i := 0; i < maxAttempts
LoopCond(n, rt) == n < rt.maxAttempts

\* A loop that asks the limiter again before every retry.
LoopHeadReadmits(n, rt) ==
    IF ~LoopCond(n, rt) THEN "after"
    ELSE IF n = 0 THEN "attempt" ELSE "admit"

\* The loop's test: the next attempt, or the return of doWithRetry to Do.
LoopHead(n, rt) == IF LoopCond(n, rt) THEN "attempt" ELSE "after"

\* c.beforeRequestHooks / c.afterResponseHooks: OnBeforeRequest and
\* OnAfterResponse append, so hook k is the k-th registered.
HookList(n) == [k \in 1..n |-> k]

\* A chain that goes on after a hook returned an error.
RECURSIVE RunHooksPastError(_, _, _)
RunHooksPastError(hooks, failing, ran) ==
    IF hooks = <<>> THEN [ran |-> ran, err |-> failing # {}]
    ELSE RunHooksPastError(Tail(hooks), failing, Append(ran, Head(hooks)))

\* for _, hook := range hooks: the hooks are called in the order of the
\* slice and the loop ends at the first one that returns an error.  failing
\* is the set of hooks that would return an error if called.
RECURSIVE RunHooks(_, _, _)
RunHooks(hooks, failing, ran) ==
    IF hooks = <<>> THEN [ran |-> ran, err |-> FALSE]
    ELSE IF Head(hooks) \in failing
           THEN [ran |-> Append(ran, Head(hooks)), err |-> TRUE]
           ELSE RunHooks(Tail(hooks), failing, Append(ran, Head(hooks)))

\* Client.onBeforeRequest and the test of its result in Client.Do.
OnBeforeRequest ==
    /\ pc = "before"
    /\ \E failing \in SUBSET (1..nBefore) :
        LET chain == RunHooks(HookList(nBefore), failing, <<>>)
        IN  /\ beforeFailing' = failing
            /\ beforeRun' = chain.ran
            /\ IF chain.err
                 THEN /\ resp' = [resp EXCEPT !.err = "hook"]
                      /\ pc' = "done"
                 ELSE /\ resp' = resp
                      /\ pc' = "prepare"
    /\ UNCHANGED <<req, retrier, url, limiter, nBefore, nAfter, ctxDone, i,
                   timer, origBody, attempts, sent, results, afterRun,
                   allowCalls, allowRes, waitCalls, waitRes, permits, admitted,
                   backoffCalls, cancelAt, attemptsAtCancel, afterFailing,
                   auxVars>>

\* A pipeline that goes on to admission after a failed read of the body.
AfterDrainErrorGoesOn == "admit"

\* if err != nil { resp.err = err; return }: doWithRetry returns to Do.
AfterDrainError == "after"

\* doWithRetry, up to the limiter: the default retrier, or the buffering of
\* a body that cannot be regenerated.  A read of the stream may fail.
Prepare ==
    /\ pc = "prepare"
    /\ \/ /\ ~retrier.set
          /\ retrier' = noRetry
          /\ UNCHANGED <<req, resp>>
          /\ pc' = "admit"
       \/ /\ NeedsDrain(retrier, req)
          /\ \/ /\ req' = SetBody(req, drainBody(req.Body))
                /\ resp' = resp
                /\ pc' = "admit"
             \/ /\ req' = ConsumeBody(req)
                /\ resp' = [resp EXCEPT !.err = "read"]
                /\ pc' = AfterDrainError
          /\ UNCHANGED retrier
       \/ /\ retrier.set
          /\ ~NeedsDrain(retrier, req)
          /\ UNCHANGED <<req, resp, retrier>>
          /\ pc' = "admit"
    /\ UNCHANGED <<url, limiter, nBefore, nAfter, ctxDone, i, timer, origBody,
                   attempts, sent, results, beforeRun, afterRun, allowCalls,
                   allowRes, waitCalls, waitRes, permits, admitted,
                   backoffCalls, cancelAt, attemptsAtCancel, hookEnv,
                   auxVars>>

\* c.limiter != nil && !c.limiter.Allow(req.Request)
Admit ==
    /\ pc = "admit"
    /\ IF limiter.attached
         THEN /\ allowCalls' = allowCalls + 1
              /\ allowRes' = Allow(limiter.urlPatterns, url)
         ELSE UNCHANGED <<allowCalls, allowRes>>
    /\ IF MustWait(limiter, url)
         THEN /\ pc' = "wait"
              /\ waitCalls' = waitCalls + 1
              /\ UNCHANGED <<admitted, i>>
         ELSE /\ admitted' = TRUE
              /\ i' = 0
              /\ pc' = LoopHead(0, retrier)
              /\ UNCHANGED waitCalls
    /\ UNCHANGED <<req, retrier, url, limiter, nBefore, nAfter, ctxDone, resp,
                   timer, origBody, attempts, sent, results, beforeRun,
                   afterRun, waitRes, permits, backoffCalls, cancelAt,
                   attemptsAtCancel, hookEnv,
                   auxVars>>

\* What c.limiter.Wait(ctx) can return: nil once a permit is granted, or an
\* error of the limiter (rate.Limiter: the burst or the deadline is exceeded);
\* once the context is done, the context's error, or nil when the permit was
\* granted at the same moment.
WaitResults(done) == IF done THEN {"ctx", "nil"} ELSE {"nil", "rate"}

\* err = c.limiter.Wait(ctx) returns.
LimiterWait ==
    /\ pc = "wait"
    /\ \E r \in WaitResults(ctxDone) :
        /\ waitRes' = r
        /\ IF r = "nil"
             THEN /\ permits' = permits + 1
                  /\ admitted' = TRUE
                  /\ i' = 0
                  /\ pc' = LoopHead(0, retrier)
                  /\ resp' = resp
             ELSE /\ resp' = [resp EXCEPT !.err = r]
                  /\ pc' = "after"
                  /\ UNCHANGED <<permits, admitted, i>>
    /\ UNCHANGED <<req, retrier, url, limiter, nBefore, nAfter, ctxDone, timer,
                   origBody, attempts, sent, results, beforeRun, afterRun,
                   allowCalls, allowRes, waitCalls, backoffCalls, cancelAt,
                   attemptsAtCancel, hookEnv,
                   auxVars>>

\* c.do(req.Request) is called: the transport is handed the request.
DoStart ==
    /\ pc = "attempt"
    /\ attempts' = attempts + 1
    /\ sent' = Append(sent, req.Body.data)
    /\ req' = ConsumeBody(req)
    /\ pc' = "inflight"
    /\ UNCHANGED <<retrier, url, limiter, nBefore, nAfter, ctxDone, i, resp,
                   timer, origBody, results, beforeRun, afterRun, allowCalls,
                   allowRes, waitCalls, waitRes, permits, admitted,
                   backoffCalls, cancelAt, attemptsAtCancel, hookEnv,
                   auxVars>>

\* What the transport can return.  A context that was done when the attempt
\* started makes http.Transport return the context's error; one that fires
\* while the attempt is in flight races with the attempt's completion.
DoOutcomes(done, doneAtStart) ==
    IF doneAtStart THEN {CtxOutcome}
    ELSE IF done THEN Outcomes \cup {CtxOutcome}
    ELSE Outcomes

\* resp.Response, resp.err = c.do(req.Request)
DoReturn ==
    /\ pc = "inflight"
    /\ \E o \in DoOutcomes(ctxDone, ctxDone /\ cancelAt # "inflight") :
        /\ resp' = o
        /\ results' = Append(results, o)
    /\ pc' = "decide"
    /\ UNCHANGED <<req, retrier, url, limiter, nBefore, nAfter, ctxDone, i,
                   timer, origBody, attempts, sent, beforeRun, afterRun,
                   allowCalls, allowRes, waitCalls, waitRes, permits, admitted,
                   backoffCalls, cancelAt, attemptsAtCancel, hookEnv,
                   auxVars>>

\* A loop that never takes an attempt for the last one.
LastAttemptNever(n, rt) == FALSE

\* A loop that gives up one attempt early.
LastAttemptEarly(n, rt) == n >= rt.maxAttempts - 2

\* i >= req.retrier.maxAttempts-1
LastAttempt(n, rt) == n >= rt.maxAttempts - 1

\* A test after the attempt that always goes on.
ShouldReturnNever(done, n, rt, rs) == FALSE

\* A test after the attempt that does not look at the context.
ShouldReturnIgnoresCtx(done, n, rt, rs) == LastAttempt(n, rt) \/ ~on(rt, rs)

\* ctx.Err() != nil || i >= req.retrier.maxAttempts-1 || !req.retrier.on(resp)
ShouldReturn(done, n, rt, rs) == done \/ LastAttempt(n, rt) \/ ~on(rt, rs)

\* A loop that counts its waits from 1.
WaitTimeArgsFromOne(n, rs) == [attemptNum |-> n + 1, resp |-> rs]

\* req.retrier.backoff.WaitTime(i, resp)
WaitTimeArgs(n, rs) == [attemptNum |-> n, resp |-> rs]

\* The test after an attempt, the regeneration of the body and the call of
\* backoff.WaitTime(i, resp) that arms the timer of the select.
Decide ==
    /\ pc = "decide"
    /\ IF ShouldReturn(ctxDone, i, retrier, resp)
         THEN /\ pc' = "after"
              /\ UNCHANGED <<req, backoffCalls, timer>>
         ELSE /\ req' = RegenerateBody(req)
              /\ backoffCalls' = Append(backoffCalls, WaitTimeArgs(i, resp))
              /\ timer' = "armed"
              /\ pc' = "backoff"
    /\ UNCHANGED <<retrier, url, limiter, nBefore, nAfter, ctxDone, i, resp,
                   origBody, attempts, sent, results, beforeRun, afterRun,
                   allowCalls, allowRes, waitCalls, waitRes, permits, admitted,
                   cancelAt, attemptsAtCancel, hookEnv,
                   auxVars>>

\* The wait time elapses: the channel of time.After becomes ready.
TimerFires ==
    /\ pc = "backoff"
    /\ timer = "armed"
    /\ timer' = "fired"
    /\ UNCHANGED <<pc, req, retrier, url, limiter, nBefore, nAfter, ctxDone, i,
                   resp, origBody, attempts, sent, results, beforeRun,
                   afterRun, allowCalls, allowRes, waitCalls, waitRes, permits,
                   admitted, backoffCalls, cancelAt, attemptsAtCancel, hookEnv,
                   auxVars>>

\* A timer whose channel is ready before the wait time has elapsed.
TimerReadyAtOnce(t) == t \in {"armed", "fired"}

\* case <-time.After(d) can be taken once d has elapsed.
TimerReady(t) == t = "fired"

\* select takes case <-time.After(...): the loop goes on with i++.
BackoffElapsed ==
    /\ pc = "backoff"
    /\ TimerReady(timer)
    /\ timer' = "off"
    /\ i' = i + 1
    /\ pc' = LoopHead(i + 1, retrier)
    /\ UNCHANGED <<req, retrier, url, limiter, nBefore, nAfter, ctxDone, resp,
                   origBody, attempts, sent, results, beforeRun, afterRun,
                   allowCalls, allowRes, waitCalls, waitRes, permits, admitted,
                   backoffCalls, cancelAt, attemptsAtCancel, hookEnv,
                   auxVars>>

\* select takes case <-ctx.Done(): resp.err = ctx.Err(); return.  When both
\* channels are ready select takes either case.
BackoffCancelled ==
    /\ pc = "backoff"
    /\ ctxDone
    /\ timer' = "off"
    /\ resp' = [resp EXCEPT !.err = "ctx"]
    /\ pc' = "after"
    /\ UNCHANGED <<req, retrier, url, limiter, nBefore, nAfter, ctxDone, i,
                   origBody, attempts, sent, results, beforeRun, afterRun,
                   allowCalls, allowRes, waitCalls, waitRes, permits, admitted,
                   backoffCalls, cancelAt, attemptsAtCancel, hookEnv,
                   auxVars>>

\* After-response hooks that run whatever the response's error is.
AfterHooksNeverSkipped(rs) == FALSE

\* if resp.err != nil { return }
AfterHooksSkipped(rs) == rs.err # NoErr

\* Client.onAfterResponse: nothing on an error; else the chain of hooks,
\* the first error of which becomes the response's error.
OnAfterResponse ==
    /\ pc = "after"
    /\ IF AfterHooksSkipped(resp)
         THEN UNCHANGED <<afterRun, afterFailing, resp>>
         ELSE \E failing \in SUBSET (1..nAfter) :
                LET chain == RunHooks(HookList(nAfter), failing, <<>>)
                IN  /\ afterFailing' = failing
                    /\ afterRun' = chain.ran
                    /\ resp' = IF chain.err
                                 THEN [resp EXCEPT !.err = "afterhook"]
                                 ELSE resp
    /\ pc' = "done"
    /\ UNCHANGED <<req, retrier, url, limiter, nBefore, nAfter, ctxDone, i,
                   timer, origBody, attempts, sent, results, beforeRun,
                   allowCalls, allowRes, waitCalls, waitRes, permits, admitted,
                   backoffCalls, cancelAt, attemptsAtCancel, beforeFailing,
                   auxVars>>

Next ==
    \/ Cancel
    \/ OnBeforeRequest
    \/ Prepare
    \/ Admit
    \/ LimiterWait
    \/ DoStart
    \/ DoReturn
    \/ Decide
    \/ TimerFires
    \/ BackoffElapsed
    \/ BackoffCancelled
    \/ OnAfterResponse

Spec == Init /\ [][Next]_vars

----------------------------------------------------------------------------
(* regexpLimiter.Allow on its own: every pattern list and URL of the bounds *)

InitAllow ==
    /\ InitPipe({NilReader}, {NoRetrier}, {NoLimiter}, {0})
    /\ rlPatterns \in PatternLists
    /\ rlURL \in URLs
    /\ rlOut = "none"
    /\ InitLimitIdle
    /\ InitRespIdle
    /\ InitDirect
    /\ InitFunIdle

CallAllow ==
    /\ rlOut = "none"
    /\ rlOut' = IF Allow(rlPatterns, rlURL) THEN "true" ELSE "false"
    /\ UNCHANGED <<rlPatterns, rlURL, pipeVars, limitVars, respVars,
                 verbVars, funVars>>

NextAllow == CallAllow

SpecAllow == InitAllow /\ [][NextAllow]_vars

----------------------------------------------------------------------------
(* The hooks: a client with up to MaxHooks + 1 hooks of each kind, so that *)
(* a chain has a first, a middle and a last hook; the request has no body  *)
(* or a stream, no retrier or one that retries once.                       *)

HookBodies == {NilReader, [type |-> "stream", data |-> Content(1)]}
HookRetriers == {NoRetrier, NewRetrier(2, <<"always">>)}
HookLimiters == {NoLimiter, NewRegexpLimiter(<<>>)}

InitHooks ==
    /\ InitPipe(HookBodies, HookRetriers, HookLimiters, 0..(MaxHooks + 1))
    /\ InitAllowIdle
    /\ InitLimitIdle
    /\ InitRespIdle
    /\ InitDirect
    /\ InitFunIdle

SpecHooks == InitHooks /\ [][Next]_vars

----------------------------------------------------------------------------
(* Concurrent requests on one client with a rate limiter: MaxRequests      *)
(* goroutines call client.Get(url) at time 0, as the tests of the limiter  *)
(* do.  The client has no hooks; the requests carry no retrier and the     *)
(* background context, so each call is: Allow, Wait when Allow declined,   *)
(* one attempt.  The limiter's token bucket starts full with burst         *)
(* permits and gains one permit per period of 1/rate seconds, up to burst. *)

InitLimit ==
    /\ InitPipe({NilReader}, {NoRetrier}, PipeLimiters, {0})
    /\ InitAllowIdle
    /\ InitRespIdle
    /\ InitDirect
    /\ InitFunIdle
    /\ rq = [p \in Requests |-> "admit"]
    /\ burst \in 1..MaxBurst
    /\ tokens = burst
    /\ now = 0
    /\ started = 0

\* c.limiter != nil && !c.limiter.Allow(req.Request), in call p.
RqAdmit(p) ==
    /\ rq[p] = "admit"
    /\ rq' = [rq EXCEPT ![p] = IF MustWait(limiter, url) THEN "wait"
                                ELSE LoopHead(0, noRetry)]
    /\ UNCHANGED <<burst, tokens, now, started, pipeVars, allowVars,
                   respVars, verbVars, funVars>>

\* c.limiter.Wait(ctx) returns nil in call p: it took a permit.
RqWait(p) ==
    /\ rq[p] = "wait"
    /\ tokens >= 1
    /\ tokens' = tokens - 1
    /\ rq' = [rq EXCEPT ![p] = LoopHead(0, noRetry)]
    /\ UNCHANGED <<burst, now, started, pipeVars, allowVars,
                   respVars, verbVars, funVars>>

\* c.do(req.Request) is called in call p.
RqDoStart(p) ==
    /\ rq[p] = "attempt"
    /\ started' = started + 1
    /\ rq' = [rq EXCEPT ![p] = "inflight"]
    /\ UNCHANGED <<burst, tokens, now, pipeVars, allowVars,
                   respVars, verbVars, funVars>>

\* The attempt of call p returns; it was the last one, and Get returns.
RqDoReturn(p) ==
    /\ rq[p] = "inflight"
    /\ rq' = [rq EXCEPT ![p] = "done"]
    /\ UNCHANGED <<burst, tokens, now, started, pipeVars, allowVars,
                   respVars, verbVars, funVars>>

\* One permit period passes: the bucket gains a permit unless it is full.
\* Time is followed for MaxTicks periods, and further while the bucket is
\* not full.
Tick ==
    /\ now < MaxTicks \/ tokens < burst
    /\ now' = now + 1
    /\ tokens' = IF tokens < burst THEN tokens + 1 ELSE tokens
    /\ UNCHANGED <<rq, burst, started, pipeVars, allowVars,
                   respVars, verbVars, funVars>>

NextLimit ==
    \/ \E p \in Requests : RqAdmit(p)
    \/ \E p \in Requests : RqWait(p)
    \/ \E p \in Requests : RqDoStart(p)
    \/ \E p \in Requests : RqDoReturn(p)
    \/ Tick

\* The goroutines are scheduled and time passes.
SpecLimit == InitLimit /\ [][NextLimit]_vars /\ WF_vars(NextLimit)

----------------------------------------------------------------------------
(* The Response methods, called on the response Do returned.               *)

\* The state of a Response after a method, and what the method returned:
\* an error, or for a method that returns the response, its Err().
RespState(rs, ct, rd, rv) ==
    [resp |-> rs, content |-> ct, bodyRead |-> rd, ret |-> rv]

\* The body of the transport response.
RespBody == Content(1)

\* ioutil.ReadAll(resp.Body) after defer resp.Body.Close(): the data and a
\* nil error, or what was read and an error; a body read before is closed.
ReadAll(rd) ==
    IF rd THEN {[data |-> <<>>, err |-> "closed"]}
    ELSE {[data |-> RespBody, err |-> NoErr], [data |-> <<>>, err |-> "bodyread"]}

Prefetch(rs, ct, rd) ==
    IF rs.err # NoErr \/ ct.set THEN {RespState(rs, ct, rd, rs.err)}
    ELSE {RespState([rs EXCEPT !.err = b.err], [set |-> TRUE, data |-> b.data],
                    TRUE, b.err) : b \in ReadAll(rd)}

RespContent(rs, ct, rd) ==
    IF rs.err # NoErr \/ ct.set THEN {RespState(rs, ct, rd, rs.err)}
    ELSE {RespState(rs, ct, TRUE, b.err) : b \in ReadAll(rd)}

\* An EnsureStatus that tests the status whatever the response's error is.
EnsureStatusOverwrites(rs, code) ==
    IF rs.status # code THEN [rs EXCEPT !.err = "status"] ELSE rs

EnsureStatus(rs, code) ==
    IF rs.err # NoErr THEN rs
    ELSE IF rs.status # code THEN [rs EXCEPT !.err = "status"]
    ELSE rs

EnsureStatusOk(rs) == EnsureStatus(rs, StatusOK)

EnsureStatus2xx(rs) ==
    IF rs.err # NoErr THEN rs
    ELSE IF rs.status \div 100 # 2 THEN [rs EXCEPT !.err = "status"]
    ELSE rs

\* JSON and XML: the error of the response, else the result of decoding the
\* cached content, else that of decoding the body, which reads it.
Decode(rs, ct, rd) ==
    IF rs.err # NoErr THEN {RespState(rs, ct, rd, rs.err)}
    ELSE IF ct.set THEN {RespState(rs, ct, rd, e) : e \in {NoErr, "decode"}}
    ELSE IF rd THEN {RespState(rs, ct, TRUE, "closed")}
    ELSE {RespState(rs, ct, TRUE, e) : e \in {NoErr, "decode"}}

\* Dump: httputil.DumpResponse reads the body and puts a copy back.
Dump(rs, ct, rd) ==
    IF rs.err # NoErr THEN {RespState(rs, ct, rd, rs.err)}
    ELSE {RespState(rs, ct, rd, e) : e \in {NoErr, "dump"}}

Cookies(rs, ct, rd) ==
    IF rs.err # NoErr THEN {RespState(rs, ct, rd, rs.err)}
    ELSE {RespState(rs, ct, rd, NoErr)}

\* Save: the cached content is written, or the file is opened (which may
\* fail before anything is read) and the body copied into it.
Save(rs, ct, rd) ==
    IF rs.err # NoErr THEN {RespState(rs, ct, rd, rs.err)}
    ELSE IF ct.set THEN {RespState(rs, ct, rd, e) : e \in {NoErr, "file"}}
    ELSE {RespState(rs, ct, rd, "file")}
         \cup {RespState(rs, ct, TRUE, e) : e \in {NoErr, "file"}}

\* Verbose: the body is copied to the writer when withBody is set, the
\* content length is not 0 and there is no cached content.
Verbose(rs, ct, rd, withBody, emptyLength) ==
    IF rs.err # NoErr THEN {RespState(rs, ct, rd, rs.err)}
    ELSE IF ~withBody \/ emptyLength \/ ct.set
      THEN {RespState(rs, ct, rd, e) : e \in {NoErr, "write"}}
    ELSE {RespState(rs, ct, TRUE, e) : e \in {NoErr, "write"}}

\* A method m is called on the response and ends in one of the states outs.
Call(m, outs) ==
    /\ pc = "done"
    /\ calls < MaxCalls
    /\ \E o \in outs :
        /\ resp' = o.resp
        /\ content' = o.content
        /\ bodyRead' = o.bodyRead
        /\ ret' = o.ret
    /\ method' = m
    /\ calls' = calls + 1
    /\ UNCHANGED <<pc, req, retrier, url, limiter, nBefore, nAfter, ctxDone, i,
                   timer, origBody, attempts, sent, results, beforeRun,
                   afterRun, allowCalls, allowRes, waitCalls, waitRes, permits,
                   admitted, backoffCalls, cancelAt, attemptsAtCancel, hookEnv,
                   allowVars, limitVars, verbVars, funVars>>

\* A method that returns the response: its state after the call.
Chained(rs) == {RespState(rs, content, bodyRead, rs.err)}

CallPrefetch == Call("Prefetch", Prefetch(resp, content, bodyRead))
CallContent == Call("Content", RespContent(resp, content, bodyRead))
CallEnsureStatus ==
    \E code \in {StatusOK, StatusServerError} :
        Call("EnsureStatus", Chained(EnsureStatus(resp, code)))
CallEnsureStatusOk == Call("EnsureStatusOk", Chained(EnsureStatusOk(resp)))
CallEnsureStatus2xx == Call("EnsureStatus2xx", Chained(EnsureStatus2xx(resp)))
CallJSON == Call("JSON", Decode(resp, content, bodyRead))
CallXML == Call("XML", Decode(resp, content, bodyRead))
CallDump == Call("Dump", Dump(resp, content, bodyRead))
CallCookies == Call("Cookies", Cookies(resp, content, bodyRead))
CallSave == Call("Save", Save(resp, content, bodyRead))
CallVerbose ==
    \E withBody \in BOOLEAN, emptyLength \in BOOLEAN :
        Call("Verbose", Verbose(resp, content, bodyRead, withBody, emptyLength))

\* A request without a body, sent once or with one retry, by a client with
\* or without a limiter and hooks; then up to MaxCalls methods are called on
\* the response.
InitResp ==
    /\ InitPipe({NilReader}, HookRetriers, HookLimiters, 0..MaxHooks)
    /\ InitAllowIdle
    /\ InitLimitIdle
    /\ InitRespIdle
    /\ InitDirect
    /\ InitFunIdle

NextResp ==
    \/ Cancel
    \/ OnBeforeRequest
    \/ Prepare
    \/ Admit
    \/ LimiterWait
    \/ DoStart
    \/ DoReturn
    \/ Decide
    \/ TimerFires
    \/ BackoffElapsed
    \/ BackoffCancelled
    \/ OnAfterResponse
    \/ CallPrefetch
    \/ CallContent
    \/ CallEnsureStatus
    \/ CallEnsureStatusOk
    \/ CallEnsureStatus2xx
    \/ CallJSON
    \/ CallXML
    \/ CallDump
    \/ CallCookies
    \/ CallSave
    \/ CallVerbose

SpecResp == InitResp /\ [][NextResp]_vars

----------------------------------------------------------------------------
(* The verb methods of Client.  A client c with its own limiter and hooks  *)
(* makes a request with one of its methods; GlobalClient is the package's  *)
(* default client.                                                         *)

Verbs == {"Get", "Head", "Post", "Put", "Patch", "Delete", "Send"}

\* GlobalClient = New(): no limiter, no hooks.
GlobalClient == [limiter |-> NoLimiter, nBefore |-> 0, nAfter |-> 0]

\* The client whose Send (and so whose Do) a method of client c calls.
SendsThrough(v) == IF v = "Put" THEN "GlobalClient" ELSE "c"

InitVerbs ==
    /\ pc = "call"
    /\ client \in [limiter : HookLimiters, nBefore : 0..MaxHooks,
                    nAfter : 0..MaxHooks]
    /\ verb = "none"
    /\ via = "none"
    /\ origBody \in HookBodies
    /\ req = SetBody(NewRawRequest, origBody)
    /\ retrier \in HookRetriers
    /\ url = PipeURL
    /\ limiter = NoLimiter
    /\ nBefore = 0
    /\ nAfter = 0
    /\ ctxDone = FALSE
    /\ i = 0
    /\ resp = NoResponse
    /\ timer = "off"
    /\ InitHistory
    /\ InitAllowIdle
    /\ InitLimitIdle
    /\ InitRespIdle
    /\ InitFunIdle

\* c.Get(url, opts...), ..., c.Send(method, url, opts...): the request is
\* built and Do is called on a client, whose limiter and hooks the pipeline
\* then uses.
CallVerb ==
    /\ pc = "call"
    /\ \E v \in Verbs :
        LET doer == IF SendsThrough(v) = "c" THEN client ELSE GlobalClient
        IN  /\ verb' = v
            /\ via' = SendsThrough(v)
            /\ limiter' = doer.limiter
            /\ nBefore' = doer.nBefore
            /\ nAfter' = doer.nAfter
    /\ pc' = "before"
    /\ UNCHANGED <<client, req, retrier, url, ctxDone, i, resp, timer, origBody,
                   attempts, sent, results, beforeRun, afterRun, allowCalls,
                   allowRes, waitCalls, waitRes, permits, admitted,
                   backoffCalls, cancelAt, attemptsAtCancel, hookEnv, allowVars,
                   limitVars, respVars, funVars>>

NextVerbs ==
    \/ CallVerb
    \/ Cancel
    \/ OnBeforeRequest
    \/ Prepare
    \/ Admit
    \/ LimiterWait
    \/ DoStart
    \/ DoReturn
    \/ Decide
    \/ TimerFires
    \/ BackoffElapsed
    \/ BackoffCancelled
    \/ OnAfterResponse

SpecVerbs == InitVerbs /\ [][NextVerbs]_vars

----------------------------------------------------------------------------
(* Backoff.WaitTime: doWithRetry calls it with attemptNum 0, 1, 2, ... and *)
(* the response of the attempt; a panic ends the calls.                    *)

InitBackoff ==
    /\ InitPipe({NilReader}, {NoRetrier}, {NoLimiter}, {0})
    /\ InitAllowIdle
    /\ InitLimitIdle
    /\ InitSendIdle
    /\ InitRespIdle
    /\ InitDirect
    /\ InitOnIdle
    /\ InitBodyIdle
    /\ InitSharedIdle
    /\ bo \in Backoffs
    /\ boNum = 0
    /\ boPrev = NotCalled
    /\ boOut = NotCalled

\* A strategy that keeps state: every call doubles its initial duration.
CallWaitTimeStateful ==
    /\ boNum <= MaxIndex
    /\ boOut.state # "panic"
    /\ \E rs \in Outcomes : \E o \in WaitTime(bo, boNum, rs) :
        /\ boPrev' = boOut
        /\ boOut' = o
    /\ boNum' = boNum + 1
    /\ bo' = [bo EXCEPT !.initialDuration = 2 * @]
    /\ UNCHANGED <<pipeVars, allowVars, limitVars, respVars, verbVars,
                   onVars, bodyVars, sharedVars, sendVars>>

\* req.retrier.backoff.WaitTime(i, resp)
CallWaitTime ==
    /\ boNum <= MaxIndex
    /\ boOut.state # "panic"
    /\ \E rs \in Outcomes : \E o \in WaitTime(bo, boNum, rs) :
        /\ boPrev' = boOut
        /\ boOut' = o
    /\ boNum' = boNum + 1
    /\ UNCHANGED <<bo, pipeVars, allowVars, limitVars, respVars, verbVars,
                   onVars, bodyVars, sharedVars, sendVars>>

NextBackoff == CallWaitTime

SpecBackoff == InitBackoff /\ [][NextBackoff]_vars

----------------------------------------------------------------------------
(* Retrier.on, called once on a Retrier with up to MaxTriggers triggers    *)

TriggerKinds == {"always", "never", "onError", "notOK"}

InitOn ==
    /\ InitPipe({NilReader}, {NoRetrier}, {NoLimiter}, {0})
    /\ InitAllowIdle
    /\ InitLimitIdle
    /\ InitSendIdle
    /\ InitRespIdle
    /\ InitDirect
    /\ InitBackoffIdle
    /\ InitBodyIdle
    /\ InitSharedIdle
    /\ onTriggers \in SeqsUpTo(TriggerKinds, MaxTriggers)
    /\ onResp \in Outcomes \cup {CtxOutcome}
    /\ onSeen = <<>>
    /\ onOut = "none"

\* req.retrier.on(resp)
CallOn ==
    /\ onOut = "none"
    /\ onOut' = IF on(NewRetrier(MaxAttempts, onTriggers), onResp)
                  THEN "true" ELSE "false"
    /\ onSeen' = TriggersCalled(onTriggers, onResp, 1)
    /\ UNCHANGED <<onTriggers, onResp, pipeVars, allowVars, limitVars,
                   respVars, verbVars, backoffVars, bodyVars, sharedVars, sendVars>>

NextOn == CallOn

SpecOn == InitOn /\ [][NextOn]_vars

----------------------------------------------------------------------------
(* Request.SetBody and req.GetBody: up to MaxSets calls of SetBody on one  *)
(* request, with a nil reader, a *bytes.Buffer, a *bytes.Reader, a         *)
(* *strings.Reader or another io.Reader, and up to MaxGets calls of        *)
(* GetBody after each.                                                     *)

SetBodyArgs ==
    {NilReader}
    \cup {[type |-> t, data |-> Content(n)] :
            t \in InMemoryTypes \cup {"stream"}, n \in 0..MaxBodyLen}

InitBody ==
    /\ InitPipe({NilReader}, {NoRetrier}, {NoLimiter}, {0})
    /\ InitAllowIdle
    /\ InitLimitIdle
    /\ InitSendIdle
    /\ InitRespIdle
    /\ InitDirect
    /\ InitBackoffIdle
    /\ InitOnIdle
    /\ InitSharedIdle
    /\ InitBodyIdle

\* req.SetBody(body)
CallSetBody ==
    /\ sbSets < MaxSets
    /\ \E body \in SetBodyArgs :
        /\ sbReq' = SetBody(sbReq, body)
        /\ sbLast' = body
    /\ sbSets' = sbSets + 1
    /\ sbGets' = 0
    /\ sbGot' = NilBody
    /\ UNCHANGED <<pipeVars, allowVars, limitVars, respVars, verbVars,
                   backoffVars, onVars, sharedVars, sendVars>>

\* req.GetBody(): every call returns a new reader over the snapshot, or
\* http.NoBody.
CallGetBody ==
    /\ sbReq.GetBody.set
    /\ sbGets < MaxGets
    /\ sbGot' = RegenerateBody(sbReq).Body
    /\ sbGets' = sbGets + 1
    /\ UNCHANGED <<sbReq, sbLast, sbSets, pipeVars, allowVars, limitVars,
                   respVars, verbVars, backoffVars, onVars, sharedVars, sendVars>>

NextBody ==
    \/ CallSetBody
    \/ CallGetBody

SpecBody == InitBody /\ [][NextBody]_vars

----------------------------------------------------------------------------
(* Requests made one after the other on one client, each with the same     *)
(* body and the same Retrier; the Retrier's backoff strategy is shared     *)
(* with other pipelines, which call WaitTime at any time.                  *)

SharedBackoffs ==
    {NewConstantBackoff(1, FALSE), NewExponentialBackoff(2, 4, TRUE)}

InitShared ==
    /\ InitPipe(HookBodies, HookRetriers, HookLimiters, 0..MaxHooks)
    /\ InitAllowIdle
    /\ InitLimitIdle
    /\ InitSendIdle
    /\ InitRespIdle
    /\ InitDirect
    /\ InitOnIdle
    /\ InitBodyIdle
    /\ runs = 1
    /\ sharedRt = retrier
    /\ bo \in SharedBackoffs
    /\ boNum = 0
    /\ boPrev = NotCalled
    /\ boOut = NotCalled

\* Do has returned; the next request is built as the first one was and Do
\* is called with it.
NextRequest ==
    /\ pc = "done"
    /\ runs < MaxRuns
    /\ runs' = runs + 1
    /\ pc' = "before"
    /\ req' = SetBody(NewRawRequest, origBody)
    /\ retrier' = sharedRt
    /\ ctxDone' = FALSE
    /\ i' = 0
    /\ resp' = NoResponse
    /\ timer' = "off"
    /\ attempts' = 0
    /\ sent' = <<>>
    /\ results' = <<>>
    /\ beforeRun' = <<>>
    /\ afterRun' = <<>>
    /\ beforeFailing' = {}
    /\ afterFailing' = {}
    /\ allowCalls' = 0
    /\ allowRes' = FALSE
    /\ waitCalls' = 0
    /\ waitRes' = "none"
    /\ permits' = 0
    /\ admitted' = FALSE
    /\ backoffCalls' = <<>>
    /\ cancelAt' = "none"
    /\ attemptsAtCancel' = 0
    /\ UNCHANGED <<origBody, url, limiter, nBefore, nAfter, sharedRt,
                   allowVars, limitVars, respVars, verbVars, backoffVars,
                   onVars, bodyVars, sendVars>>

NextShared ==
    \/ Cancel
    \/ OnBeforeRequest
    \/ Prepare
    \/ Admit
    \/ LimiterWait
    \/ DoStart
    \/ DoReturn
    \/ Decide
    \/ TimerFires
    \/ BackoffElapsed
    \/ BackoffCancelled
    \/ OnAfterResponse
    \/ NextRequest
    \/ CallWaitTime

SpecShared == InitShared /\ [][NextShared]_vars

----------------------------------------------------------------------------
(* One Do call whose every step is eventually taken: the hooks, the        *)
(* limiter's Wait and the transport return, and the backoff timer expires. *)

InitLive ==
    /\ InitPipe({NilReader}, Retriers, HookLimiters, 0..MaxHooks)
    /\ InitAllowIdle
    /\ InitLimitIdle
    /\ InitRespIdle
    /\ InitDirect
    /\ InitFunIdle

SpecLive == InitLive /\ [][Next]_vars /\ WF_vars(Next)

----------------------------------------------------------------------------
(* One Do call of a request whose GetBody returns an error: the caller has *)
(* set the exported field GetBody of the embedded http.Request.            *)

InitRegen ==
    /\ pc = "before"
    /\ origBody \in {b \in BodyArgs : Len(b.data) >= 1}
    /\ req = [SetBody(NewRawRequest, origBody) EXCEPT !.GetBody = GetFailing]
    /\ retrier \in {NewRetrier(m, t) : m \in 1..MaxAttempts, t \in TriggerLists}
    /\ url = PipeURL
    /\ limiter \in HookLimiters
    /\ nBefore = 0
    /\ nAfter \in 0..MaxHooks
    /\ ctxDone = FALSE
    /\ i = 0
    /\ resp = NoResponse
    /\ timer = "off"
    /\ InitHistory
    /\ InitAllowIdle
    /\ InitLimitIdle
    /\ InitRespIdle
    /\ InitDirect
    /\ InitFunIdle

SpecRegen == InitRegen /\ [][Next]_vars

----------------------------------------------------------------------------
(* Client.Send: NewRequest applies the request options in order and stops  *)
(* at the first one that returns an error; Send hands the request to Do    *)
(* only when none did.  SetMultipart starts a goroutine that writes the    *)
(* payload into an io.Pipe whose read end becomes the request body: each   *)
(* of its writes blocks until the read end is read or closed.              *)

MaxOptions == 2
MaxFiles == 1

\* A request option; the fields an option does not use keep a default.
Option(name, body, data, rt, files) ==
    [name |-> name, body |-> body, data |-> data, retrier |-> rt,
     files |-> files]
WithBody(body) == Option("WithBody", body, "none", NoRetrier, 0)
WithJSON(data) == Option("WithJSON", NilReader, data, NoRetrier, 0)
WithRetry(rt) == Option("WithRetry", NilReader, "none", rt, 0)
WithMultipart(files) == Option("WithMultipart", NilReader, "none", NoRetrier, files)

\* json.Encoder.Encode with the trailing newline trimmed: the number 1 is
\* one byte, math.Inf(1) is an UnsupportedValueError.
jsonMarshal(data) ==
    IF data = "Inf" THEN [b |-> <<>>, err |-> TRUE]
    ELSE [b |-> Content(1), err |-> FALSE]

SendOptions ==
    {WithBody([type |-> "Buffer", data |-> Content(2)]),
     WithJSON("1"), WithJSON("Inf"),
     WithRetry(NewRetrier(2, <<"always">>))}
    \cup {WithMultipart(n) : n \in 0..MaxFiles}

\* The option lists of the model: at most one of them is WithMultipart.
SendOptionLists ==
    {o \in UNION {[1..n -> SendOptions] : n \in 0..MaxOptions} :
        Cardinality({k \in DOMAIN o : o[k].name = "WithMultipart"}) <= 1}

\* req := &Request{Request: rawRequest}, before the first option
NewBuild ==
    [req |-> NewRawRequest, retrier |-> NoRetrier, err |-> NoErr,
     applied |-> 0, body |-> NilReader, mp |-> NoWriter]

\* The multipart payload as the pipe delivers it: one part per file and the
\* closing boundary mw.Close writes.
PipeReader(files) == [type |-> "stream", data |-> Content(files + 1)]

\* opt(req) for one option.  SetJSON returns before SetBody when the
\* encoding fails; the other options return nil.
ApplyOption(opt, st) ==
    LET ok == [st EXCEPT !.applied = st.applied + 1]
        withBody(b) == [ok EXCEPT !.req = SetBody(st.req, b), !.body = b,
                                  !.mp.isBody = FALSE]
    IN  CASE opt.name = "WithBody" -> withBody(opt.body)
          [] opt.name = "WithJSON" ->
                IF jsonMarshal(opt.data).err
                  THEN [st EXCEPT !.err = "option"]
                  ELSE withBody([type |-> "BytesReader",
                                 data |-> jsonMarshal(opt.data).b])
          [] opt.name = "WithRetry" -> [ok EXCEPT !.retrier = opt.retrier]
          [] opt.name = "WithMultipart" ->
                [ok EXCEPT !.req = SetBody(st.req, PipeReader(opt.files)),
                           !.body = PipeReader(opt.files),
                           !.mp = [started |-> TRUE, files |-> opt.files,
                                   closed |-> 0, state |-> "writing",
                                   isBody |-> TRUE]]

\* A loop over the options that goes on after an option's error.
RECURSIVE ApplyOptionsPastError(_, _, _)
ApplyOptionsPastError(options, k, st) ==
    IF k > Len(options) THEN st
    ELSE ApplyOptionsPastError(options, k + 1,
            ApplyOption(options[k], [st EXCEPT !.err = NoErr]))

\* for _, opt := range opts { if err = opt(req); err != nil { break } }
RECURSIVE ApplyOptions(_, _, _)
ApplyOptions(options, k, st) ==
    IF k > Len(options) THEN st
    ELSE LET st1 == ApplyOption(options[k], st)
         IN  IF st1.err # NoErr THEN st1
             ELSE ApplyOptions(options, k + 1, st1)

InitSend ==
    /\ pc = "call"
    /\ client \in [limiter : HookLimiters, nBefore : 0..MaxHooks, nAfter : {0}]
    /\ verb = "none"
    /\ via = "none"
    /\ opts \in SendOptionLists
    /\ applied = 0
    /\ mp = NoWriter
    /\ origBody = NilReader
    /\ req = NewRawRequest
    /\ retrier = NoRetrier
    /\ url = PipeURL
    /\ limiter = NoLimiter
    /\ nBefore = 0
    /\ nAfter = 0
    /\ ctxDone = FALSE
    /\ i = 0
    /\ resp = NoResponse
    /\ timer = "off"
    /\ InitHistory
    /\ InitAllowIdle
    /\ InitLimitIdle
    /\ InitRespIdle
    /\ InitBackoffIdle
    /\ InitOnIdle
    /\ InitBodyIdle
    /\ InitSharedIdle

\* c.Send(method, url, opts...): NewRequest, then either the response that
\* carries the option's error or c.Do(req).
CallSend ==
    /\ pc = "call"
    /\ LET st == ApplyOptions(opts, 1, NewBuild)
       IN  /\ req' = st.req
           /\ retrier' = st.retrier
           /\ origBody' = st.body
           /\ applied' = st.applied
           /\ mp' = st.mp
           /\ IF st.err # NoErr
                THEN /\ resp' = [status |-> 0, err |-> st.err]
                     /\ pc' = "done"
                ELSE /\ resp' = resp
                     /\ pc' = "before"
    /\ verb' = "Send"
    /\ via' = "c"
    /\ limiter' = client.limiter
    /\ nBefore' = client.nBefore
    /\ nAfter' = client.nAfter
    /\ UNCHANGED <<client, opts, url, ctxDone, i, timer, attempts, sent,
                   results, beforeRun, afterRun, allowCalls, allowRes,
                   waitCalls, waitRes, permits, admitted, backoffCalls,
                   cancelAt, attemptsAtCancel, hookEnv, allowVars, limitVars,
                   respVars, backoffVars, onVars, bodyVars, sharedVars>>

\* The read end of the pipe has been read or closed: it is the body of the
\* request and the pipeline has drained it or given it to the transport,
\* which leaves the request other than NewRequest built it.
PipeTaken ==
    /\ mp.isBody
    /\ pc # "call"
    /\ req # ApplyOptions(opts, 1, NewBuild).req

\* The goroutine's writes are all read: every file is copied and closed,
\* mw.Close and pw.Close run.
WriterCompletes ==
    /\ mp.state = "writing"
    /\ PipeTaken
    /\ mp' = [mp EXCEPT !.state = "done", !.closed = mp.files]
    /\ UNCHANGED <<pipeVars, hookEnv, allowVars, limitVars, respVars,
                   verbVars, backoffVars, onVars, bodyVars, sharedVars, opts,
                   applied>>

\* The transport closes the read end before the payload is read (the
\* attempt failed): io.Copy returns io.ErrClosedPipe and setMultipartFiles
\* returns without v.Close() for the file it was copying.
WriterFails ==
    /\ mp.state = "writing"
    /\ PipeTaken
    /\ mp.files >= 1
    /\ ~req.GetBody.set
    /\ Len(results) >= 1
    /\ results[1].err # NoErr
    /\ \E closed \in 0..(mp.files - 1) :
         mp' = [mp EXCEPT !.state = "done", !.closed = closed]
    /\ UNCHANGED <<pipeVars, hookEnv, allowVars, limitVars, respVars,
                   verbVars, backoffVars, onVars, bodyVars, sharedVars, opts,
                   applied>>

NextSend ==
    \/ CallSend
    \/ WriterCompletes
    \/ WriterFails
    \/ Cancel
    \/ OnBeforeRequest
    \/ Prepare
    \/ Admit
    \/ LimiterWait
    \/ DoStart
    \/ DoReturn
    \/ Decide
    \/ TimerFires
    \/ BackoffElapsed
    \/ BackoffCancelled
    \/ OnAfterResponse

SpecSend == InitSend /\ [][NextSend]_vars

----------------------------------------------------------------------------
(* Properties *)

LoopReturned == pc \in {"after", "done"}

\* Some trigger of the retrier returns true for every response.
AlwaysRetries(rt) == \E k \in 1..Len(rt.triggers) : rt.triggers[k] = "always"

\* Some trigger of the retrier returns true for the result rs.
SomeTriggerFires(rt, rs) ==
    \E k \in 1..Len(rt.triggers) : Trigger(rt.triggers[k], rs)

\* C1: with maxAttempts = N >= 1 and a trigger that is always true, once
\* admission succeeded and while the context has not fired, the retry loop
\* returns after exactly N transport attempts with the N-th attempt's result
\* in the response; Do returns that response and status, and the attempt's
\* error unchanged (an after-response hook can only fill an empty error slot).
C1_ExactlyNAttempts ==
    ( /\ LoopReturned
      /\ retrier.set
      /\ retrier.maxAttempts >= 1
      /\ AlwaysRetries(retrier)
      /\ admitted
      /\ cancelAt = "none" )
    => /\ attempts = retrier.maxAttempts
       /\ Len(results) = retrier.maxAttempts
       /\ pc = "after" => resp = results[attempts]
       /\ resp.status = results[attempts].status
       /\ results[attempts].err # NoErr => resp.err = results[attempts].err
       /\ results[attempts].err = NoErr => resp.err \in {NoErr, "afterhook"}

C1_Witness ==
    /\ pc = "done"
    /\ AlwaysRetries(retrier)
    /\ retrier.maxAttempts = MaxAttempts
    /\ admitted
    /\ cancelAt = "none"
    /\ attempts = MaxAttempts
    /\ resp.err = "transport"

\* C2: a retrier without triggers makes Do perform exactly one attempt and
\* return its result, for every maxAttempts and every outcome of the attempt.
C2_NoTriggersOneAttempt ==
    ( /\ LoopReturned
      /\ retrier.set
      /\ retrier.triggers = <<>>
      /\ admitted )
    => /\ attempts = 1
       /\ Len(results) = 1
       /\ pc = "after" => resp = results[1]

\* C3: with a retrier built without triggers and maxAttempts > 1, the loop
\* does not return after an attempt that ended with an error while attempts
\* remain and the context has not fired.
C3_DefaultRetriesOnError ==
    ( /\ LoopReturned
      /\ retrier.set
      /\ retrier.triggers = <<>>
      /\ retrier.maxAttempts > 1
      /\ cancelAt = "none"
      /\ attempts >= 1
      /\ attempts < retrier.maxAttempts )
    => results[attempts].err = NoErr

\* C4: for a request built with a stream body and a retrier with
\* maxAttempts > 1, every attempt presents the stream's full content to the
\* transport.
C4_EveryAttemptSeesFullBody ==
    (retrier.set /\ retrier.maxAttempts > 1 /\ origBody.type = "stream")
    => \A k \in 1..Len(sent) : sent[k] = origBody.data

C4_Witness ==
    /\ origBody.type = "stream"
    /\ Len(origBody.data) = MaxBodyLen
    /\ retrier.maxAttempts = MaxAttempts
    /\ attempts = MaxAttempts
    /\ Len(sent) = MaxAttempts

\* The server of the scenario of C5 answers 500, 500, 200.
C5_Script ==
    << [status |-> StatusServerError, err |-> NoErr],
       [status |-> StatusServerError, err |-> NoErr],
       [status |-> StatusOK, err |-> NoErr] >>

\* After attempt k the pipeline goes on to attempt k+1: the context has not
\* fired, k < maxAttempts and some trigger is true of attempt k's result.
C5_GoesOn ==
    /\ ~ctxDone
    /\ attempts < retrier.maxAttempts
    /\ SomeTriggerFires(retrier, results[attempts])

\* C5: the step taken after attempt k goes on to the backoff and attempt k+1
\* if and only if the context has not fired, k < maxAttempts and some trigger
\* is true of attempt k's result, and otherwise returns attempt k's result;
\* an attempt after the first starts only after such a step; and against a
\* server answering 500, 500, 200, with the trigger "not 200" and
\* maxAttempts = 3, Do makes exactly 3 attempts and returns status 200.
C5_ContinueIffAllowed ==
    /\ [][ /\ (pc = "decide" /\ pc' # "decide")
              => IF C5_GoesOn
                   THEN pc' = "backoff" /\ resp' = resp
                   ELSE pc' = "after" /\ resp' = results[attempts]
           /\ (attempts' = attempts + 1 /\ attempts >= 1)
              => /\ Len(backoffCalls) = attempts
                 /\ attempts < retrier.maxAttempts
                 /\ SomeTriggerFires(retrier, results[attempts]) ]_vars
    /\ []( ( /\ pc = "done"
             /\ retrier.set
             /\ retrier.maxAttempts = Len(C5_Script)
             /\ retrier.triggers = <<"notOK">>
             /\ cancelAt = "none"
             /\ attempts >= 1
             /\ Len(results) <= Len(C5_Script)
             /\ \A k \in 1..Len(results) : results[k] = C5_Script[k] )
           => attempts = Len(C5_Script) /\ resp.status = StatusOK )

C5_Witness ==
    /\ pc = "done"
    /\ retrier.maxAttempts = Len(C5_Script)
    /\ retrier.triggers = <<"notOK">>
    /\ cancelAt = "none"
    /\ results = C5_Script
    /\ resp.status = StatusOK
    /\ resp.err = NoErr

\* C6: when the context fired at a suspension point (the limiter's wait, the
\* backoff sleep, a transport attempt in flight), Do returns with the
\* context's error in the response.  Stated for maxAttempts >= 1, where the
\* loop makes at least one attempt.
C6_CancelledMeansCtxError ==
    (pc = "done" /\ retrier.maxAttempts >= 1 /\ cancelAt \in SuspensionPoints)
    => resp.err = "ctx"

\* C7: once the context has fired, no transport attempt starts: the number of
\* attempts stays what it was when the context fired.  Stated for a context
\* that fires during the backoff sleep, where the timer's expiry and the
\* cancellation can both be pending.
C7_NoAttemptAfterCancel ==
    cancelAt = "backoff" => attempts = attemptsAtCancel

\* C8: when the attached limiter's Allow returned false, Wait is called and
\* has returned nil before the first attempt starts; when Wait returned an
\* error, the pipeline has ended with that error in the response, without a
\* transport attempt and without running an after-response hook.
C8_WaitBeforeFirstAttempt ==
    /\ (limiter.attached /\ allowCalls >= 1 /\ ~allowRes)
       => /\ waitCalls = 1
          /\ attempts >= 1 => waitRes = "nil"
    /\ waitRes \notin {"none", "nil"}
       => /\ LoopReturned
          /\ resp = [status |-> 0, err |-> waitRes]
          /\ attempts = 0
          /\ afterRun = <<>>

C8_Witness ==
    /\ pc = "done"
    /\ limiter.attached
    /\ ~allowRes
    /\ waitRes \in {"ctx", "rate"}
    /\ nAfter >= 1
    /\ retrier.maxAttempts = MaxAttempts

\* C9: without a limiter, or when the limiter's Allow returned true, Wait is
\* not called and no permit is consumed.
C9_BypassNeverWaits ==
    (~limiter.attached \/ (allowCalls >= 1 /\ allowRes))
    => /\ waitCalls = 0
       /\ waitRes = "none"
       /\ permits = 0

C9_Witness ==
    /\ limiter.attached
    /\ allowCalls = 1
    /\ allowRes
    /\ attempts >= 1
    /\ pc = "done"

\* C10: Allow returns true exactly when at least one pattern is configured
\* and the URL matches none of the patterns.
C10_AllowIffNoPatternMatches ==
    rlOut # "none"
    => ( rlOut = "true"
         <=> /\ Len(rlPatterns) >= 1
             /\ \A k \in 1..Len(rlPatterns) : ~MatchString(rlPatterns[k], rlURL) )

C10_Witness ==
    /\ rlOut = "true"
    /\ Len(rlPatterns) = MaxPatterns
    /\ Len(rlURL) = MaxURLLen

\* The limiter declines the fast path for the request: Wait is its only way.
Declines(lim, s) == lim.attached /\ ~Allow(lim.urlPatterns, s)

AllDone == \A p \in Requests : rq[p] = "done"

\* C11: with a limiter that declines the fast path and a token bucket of
\* burst B, of MaxRequests concurrent calls at most B start their attempt
\* before a permit period has passed, and at most B + t within t periods;
\* every call makes its attempt and returns, and when all have returned at
\* least MaxRequests - B periods (of 1/rate seconds each) have passed.
C11_BurstThenRate ==
    /\ []( Declines(limiter, url)
           => /\ now = 0 => started <= burst
              /\ started <= burst + now
              /\ AllDone => /\ started = MaxRequests
                            /\ now >= MaxRequests - burst )
    /\ <>AllDone

C11_Witness ==
    /\ Declines(limiter, url)
    /\ AllDone
    /\ burst < MaxRequests
    /\ started = MaxRequests
    /\ now = MaxRequests - burst

\* The first hook of a set of hooks, in registration order.
FirstOf(S) == CHOOSE k \in S : \A j \in S : k <= j

\* Nothing of the pipeline after the before-request hooks has happened.
NothingAfterHooks ==
    /\ req = SetBody(NewRawRequest, origBody)
    /\ allowCalls = 0
    /\ waitCalls = 0
    /\ attempts = 0
    /\ afterRun = <<>>
    /\ resp.status = 0

\* C12: the before-request hooks run once, in registration order, while
\* nothing else of the pipeline has happened; when none fails all of them
\* ran; when some fail, the chain ran up to the first failing hook and Do
\* has returned with that hook's error: the body was not buffered, the
\* limiter was not consulted, no attempt was made and no after-response
\* hook ran.
C12_BeforeHookAborts ==
    /\ [][beforeRun' # beforeRun => pc = "before"]_vars
    /\ []( /\ pc = "before" => beforeRun = <<>> /\ NothingAfterHooks
           /\ (pc # "before" /\ beforeFailing = {})
              => beforeRun = HookList(nBefore) /\ resp.err # "hook"
           /\ (pc # "before" /\ beforeFailing # {})
              => /\ beforeRun = HookList(FirstOf(beforeFailing))
                 /\ pc = "done"
                 /\ resp.err = "hook"
                 /\ NothingAfterHooks )

C12_Witness ==
    /\ pc = "done"
    /\ nBefore = MaxHooks + 1
    /\ beforeFailing = {MaxHooks, MaxHooks + 1}
    /\ beforeRun = HookList(MaxHooks)
    /\ resp.err = "hook"
    /\ limiter.attached
    /\ nAfter >= 1
    /\ origBody.type = "stream"
    /\ retrier.set

\* C13: the after-response hooks run in one step, once the retry loop has
\* returned and only when the response's error is nil then: in registration
\* order, all of them when none fails, else up to the first failing hook,
\* whose error becomes the response's error; the status is left alone, and
\* a response with an error passes unchanged with no hook run.
C13_AfterHooksOnce ==
    /\ [][ /\ afterRun' # afterRun
              => pc = "after" /\ resp.err = NoErr /\ afterRun = <<>>
           /\ (pc = "after" /\ pc' = "done")
              => IF resp.err # NoErr
                   THEN afterRun' = <<>> /\ resp' = resp
                   ELSE IF afterFailing' = {}
                     THEN afterRun' = HookList(nAfter) /\ resp' = resp
                     ELSE /\ afterRun' = HookList(FirstOf(afterFailing'))
                          /\ resp' = [resp EXCEPT !.err = "afterhook"] ]_vars
    /\ [](pc # "done" => afterRun = <<>>)

C13_Witness ==
    /\ pc = "done"
    /\ nAfter = MaxHooks + 1
    /\ afterFailing = {MaxHooks, MaxHooks + 1}
    /\ afterRun = HookList(MaxHooks)
    /\ resp.err = "afterhook"
    /\ resp.status = StatusOK
    /\ attempts = 2

\* C14: without a Retrier (doWithRetry then uses noRetry) or with one whose
\* maxAttempts is at most 1, once admission succeeded the loop returns after
\* exactly one transport attempt, whatever the triggers; the body is not
\* buffered (GetBody stays what SetBody made it), and neither the body's
\* regeneration nor Backoff.WaitTime is called.
C14_OneAttemptWithoutRetry ==
    (LoopReturned /\ admitted /\ retrier.maxAttempts <= 1)
    => /\ attempts = 1
       /\ Len(results) = 1
       /\ req.GetBody = SetBody(NewRawRequest, origBody).GetBody
       /\ backoffCalls = <<>>

\* The body had to be buffered and a read of it failed: the request still
\* has no GetBody after Prepare.
DrainFailed ==
    /\ pc \notin {"before", "prepare"}
    /\ beforeFailing = {}
    /\ retrier.set
    /\ retrier.maxAttempts > 1
    /\ origBody.type = "stream"
    /\ ~req.GetBody.set

\* C15: when a read fails while a stream body is buffered for a Retrier with
\* maxAttempts > 1, the loop has returned with the read error in the
\* response and Do returns it: the limiter was not consulted, no attempt was
\* made (so nothing is retried) and no after-response hook ran; no other
\* path yields that error.
C15_DrainErrorTerminates ==
    /\ DrainFailed
       => /\ LoopReturned
          /\ resp = [status |-> 0, err |-> "read"]
          /\ allowCalls = 0
          /\ waitCalls = 0
          /\ attempts = 0
          /\ backoffCalls = <<>>
          /\ afterRun = <<>>
    /\ resp.err = "read" => DrainFailed

C15_Witness ==
    /\ pc = "done"
    /\ DrainFailed
    /\ resp.err = "read"
    /\ limiter.attached
    /\ nAfter >= 1
    /\ retrier.maxAttempts = MaxAttempts
    /\ Len(origBody.data) = MaxBodyLen

\* C16: the response Do returns has a non-nil error or a non-nil transport
\* response, for every retrier, hook set, limiter and cancellation.
C16_ErrorOrResponse ==
    pc = "done" => (resp.err # NoErr \/ resp.status # 0)

\* C17: the response Do returns never has both a transport response and a
\* non-nil error.  Stated for the case the claim names: the context fired
\* during the backoff sleep and Do returned the context's error.
C17_NotResponseAndError ==
    (pc = "done" /\ cancelAt = "backoff" /\ resp.err = "ctx")
    => resp.status = 0

\* C19: the attempts of a Do call are sequential.  An attempt starts only
\* when every earlier attempt has returned; an attempt after the first is
\* reached only from the backoff select with the wait time elapsed, after
\* the decision to go on was taken (WaitTime was called once per earlier
\* attempt) and with the body regenerated when GetBody is set; at most one
\* attempt is in flight at any time.
C19_AttemptsSequential ==
    /\ [][ /\ attempts' # attempts
              => /\ attempts' = attempts + 1
                 /\ pc = "attempt"
                 /\ pc' = "inflight"
                 /\ Len(results) = attempts
                 /\ Len(backoffCalls) = attempts
                 /\ timer = "off"
                 /\ (attempts >= 1 /\ req.GetBody.set)
                    => req.Body = RegenerateBody(req).Body
           /\ (pc' = "attempt" /\ pc # "attempt" /\ attempts >= 1)
              => /\ pc = "backoff"
                 /\ timer = "fired"
                 /\ Len(results) = attempts
                 /\ Len(backoffCalls) = attempts ]_vars
    /\ []( /\ attempts - Len(results) \in {0, 1}
           /\ pc = "inflight" <=> attempts = Len(results) + 1 )

C19_Witness ==
    /\ pc = "inflight"
    /\ attempts = MaxAttempts
    /\ Len(results) = MaxAttempts - 1
    /\ Len(backoffCalls) = MaxAttempts - 1
    /\ origBody.type = "Buffer"
    /\ Len(origBody.data) = MaxBodyLen

\* C18: once the retry loop has returned, a non-nil error of the response
\* stays as it is: the after-response hooks do not run, and every method
\* called on the response (Prefetch, Content, EnsureStatus, EnsureStatusOk,
\* EnsureStatus2xx, JSON, XML, Dump, Cookies, Save, Verbose) leaves the
\* error, the status and the cached content unchanged, does not read the
\* body and returns that error.
C18_ErrorIsSticky ==
    [][ (LoopReturned /\ resp.err # NoErr)
        => /\ resp' = resp
           /\ content' = content
           /\ bodyRead' = bodyRead
           /\ afterRun' = afterRun
           /\ calls' # calls => ret' = resp.err ]_vars

C18_Witness ==
    /\ pc = "done"
    /\ nAfter >= 1
    /\ afterRun = <<>>
    /\ resp = [status |-> StatusServerError, err |-> "ctx"]
    /\ calls = MaxCalls
    /\ method = "Save"
    /\ ret = "ctx"
    /\ ~bodyRead
    /\ ~content.set

\* C20: a request made with any verb method of a client c runs through c:
\* the pipeline uses c's limiter and hooks, so when Do has returned without
\* a before-request hook failing, all of c's before-request hooks ran and
\* c's limiter was consulted.
C20_VerbsUseReceiver ==
    /\ pc # "call"
       => /\ via = "c"
          /\ limiter = client.limiter
          /\ nBefore = client.nBefore
          /\ nAfter = client.nAfter
    /\ (pc = "done" /\ beforeFailing = {})
       => /\ beforeRun = HookList(client.nBefore)
          /\ client.limiter.attached => allowCalls >= 1 \/ resp.err = "read"

\* The last call of WaitTime, on a strategy of the given kind and jitter.
Called(kind, jitter) ==
    /\ bo.kind = kind
    /\ bo.jitter = jitter
    /\ boOut.state # "none"

\* C21: a constant backoff without jitter returns exactly its initial
\* duration from WaitTime, for every attempt index and every response.
C21_ConstantIsInitial ==
    Called("constant", FALSE) => boOut = Returned(bo.initialDuration)

C21_Witness ==
    /\ Called("constant", FALSE)
    /\ bo.initialDuration > 0
    /\ boNum >= 2
    /\ boOut = Returned(bo.initialDuration)

\* C22: a constant backoff with jitter and an initial duration d > 0
\* returns, for every attempt index and every draw, a WaitTime w with
\* d/2 <= w < d/2 + d (integer division).
C22_ConstantJitterRange ==
    Called("constant", TRUE) /\ bo.initialDuration > 0
        => /\ boOut.state = "ret"
           /\ bo.initialDuration \div 2 <= boOut.value
           /\ boOut.value < bo.initialDuration \div 2 + bo.initialDuration

C22_Witness ==
    /\ Called("constant", TRUE)
    /\ bo.initialDuration > 2
    /\ boNum >= 2
    /\ boOut = Returned(bo.initialDuration \div 2 + bo.initialDuration - 1)
    /\ boPrev = Returned(bo.initialDuration \div 2)

\* C23: an exponential backoff without jitter returns
\* WaitTime(i) = min(maxDuration, initialDuration * 2^i) for every attempt
\* index i >= 0: the values do not decrease from one attempt to the next,
\* and once maxDuration is reached it is returned ever after.
C23_ExponentialIsCappedPower ==
    Called("exponential", FALSE)
        => /\ boOut.state = "ret"
           /\ LET attemptNum == boNum - 1
                  power == bo.initialDuration * 2^attemptNum
              IN  boOut.value = IF power < bo.maxDuration THEN power
                                ELSE bo.maxDuration
           /\ boPrev.state = "ret"
                => /\ boPrev.value <= boOut.value
                   /\ boPrev.value = bo.maxDuration
                        => boOut.value = bo.maxDuration

C23_Witness ==
    /\ Called("exponential", FALSE)
    /\ boPrev.state = "ret"
    /\ bo.initialDuration < boPrev.value
    /\ boPrev.value < boOut.value
    /\ boOut.value = bo.maxDuration
    /\ boOut.value < bo.initialDuration * 2^(boNum - 1)

\* C24: an exponential backoff with jitter returns, for every attempt
\* index i and every draw, a value in [half, 2*half), where half is the
\* integer half of min(maxDuration, initialDuration * 2^i).
C24_ExponentialJitterRange ==
    Called("exponential", TRUE) /\ boOut.state = "ret"
        => LET attemptNum == boNum - 1
               power == bo.initialDuration * 2^attemptNum
               cappedValue == IF power < bo.maxDuration THEN power
                              ELSE bo.maxDuration
               half == cappedValue \div 2
           IN  /\ half <= boOut.value
               /\ boOut.value < 2 * half

C24_Witness ==
    /\ Called("exponential", TRUE)
    /\ boPrev.state = "ret"
    /\ boOut.state = "ret"
    /\ boPrev.value >= 1
    /\ boOut.value > boPrev.value + 1
    /\ boOut.value < bo.maxDuration

\* C25: an exponential backoff whose initialDuration is at most its
\* maxDuration never returns more than maxDuration nor less than half of
\* initialDuration, for every attempt index, with or without jitter.
C25_ExponentialWithinMax ==
    /\ bo.kind = "exponential"
    /\ bo.initialDuration <= bo.maxDuration
    /\ boOut.state = "ret"
    => /\ bo.initialDuration \div 2 <= boOut.value
       /\ boOut.value <= bo.maxDuration

C25_Witness ==
    /\ Called("exponential", TRUE)
    /\ 2 <= bo.initialDuration
    /\ bo.initialDuration < bo.maxDuration
    /\ boPrev = Returned(bo.initialDuration \div 2)
    /\ boOut = Returned(bo.maxDuration - 1)

C27_WaitTimeTotal ==
    boOut.state # "none" => boOut.state = "ret" /\ boOut.value >= 0

\* C28: Retrier.on with at least one trigger returns true if and only if
\* some trigger returns true for the response; the triggers are called in
\* registration order, and none is called after the first that returns true.
C28_OnIsFirstTrue ==
    onOut # "none" /\ Len(onTriggers) >= 1
        => LET fires(k) == Trigger(onTriggers[k], onResp)
               n == Len(onSeen)
           IN  /\ onOut = "true" <=> \E k \in 1..Len(onTriggers) : fires(k)
               /\ n >= 1
               /\ \A k \in 1..n : onSeen[k] = k
               /\ \A k \in 1..(n - 1) : ~fires(k)
               /\ onOut = "true" => fires(n)
               /\ onOut = "false" => n = Len(onTriggers)

C28_Witness ==
    /\ onOut = "true"
    /\ Len(onTriggers) = 3
    /\ ~Trigger(onTriggers[1], onResp)
    /\ Trigger(onTriggers[2], onResp)
    /\ onSeen = <<1, 2>>

\* C29: after SetBody with an in-memory source of length zero the request
\* carries the empty-body sentinel: Body is http.NoBody, ContentLength is
\* 0, and GetBody returns http.NoBody on every call.
C29_EmptyBodyIsNoBody ==
    /\ sbSets >= 1
    /\ sbLast.type \in InMemoryTypes
    /\ Len(sbLast.data) = 0
    => /\ sbReq.Body = NoBody
       /\ sbReq.ContentLength = 0
       /\ sbReq.GetBody = GetNoBody
       /\ sbGets >= 1 => sbGot = NoBody

C29_Witness ==
    /\ sbSets = 2
    /\ sbLast.type = "StringsReader"
    /\ Len(sbLast.data) = 0
    /\ sbGets = 2
    /\ sbGot = NoBody
    /\ sbReq.Body = NoBody

\* C30: executing requests never changes the shared Retrier, the backoff
\* strategy's configuration or the client's limiter and hook lists: every
\* step leaves them as they are, the Retrier a request carries is not
\* changed while the request runs, and every later request is given the
\* Retrier as it was configured.  The permits taken from the limiter are
\* the shared state that does change.
C30_SharedConfigKept ==
    [][ /\ sharedRt' = sharedRt
        /\ bo' = bo
        /\ limiter' = limiter
        /\ nBefore' = nBefore
        /\ nAfter' = nAfter
        /\ retrier.set /\ runs' = runs => retrier' = retrier
        /\ runs' # runs => retrier' = sharedRt ]_vars

C30_Witness ==
    /\ runs = 2
    /\ pc = "done"
    /\ sharedRt.set
    /\ retrier = sharedRt
    /\ attempts = 2
    /\ permits >= 1
    /\ nBefore >= 1
    /\ boNum >= 2

\* C32: the wait between attempt k and attempt k+1 is computed as
\* WaitTime(k-1, result of attempt k): the attempt index passed to the
\* backoff starts at 0 and grows by one per wait, and a wait is computed
\* only after the attempt it follows and before the next one.
C32_WaitIndexZeroBased ==
    /\ \A k \in 1..Len(backoffCalls) :
        /\ backoffCalls[k].attemptNum = k - 1
        /\ k <= Len(results)
        /\ backoffCalls[k].resp = results[k]
    /\ attempts <= Len(backoffCalls) + 1

C32_Witness ==
    /\ Len(backoffCalls) = 2
    /\ attempts = 3
    /\ backoffCalls[1] = WaitTimeArgs(0, results[1])
    /\ backoffCalls[2] = WaitTimeArgs(1, results[2])
    /\ results[1] # results[2]

\* C33: admission happens exactly once per Do call: the limiter's Allow,
\* and Wait when Allow declined, are called before the first attempt, and
\* never again for the retries of the request.
C33_AdmissionOnce ==
    /\ allowCalls <= 1
    /\ waitCalls <= allowCalls
    /\ permits <= waitCalls
    /\ attempts >= 1
        => /\ allowCalls = (IF limiter.attached THEN 1 ELSE 0)
           /\ waitCalls = (IF limiter.attached /\ ~allowRes THEN 1 ELSE 0)
           /\ permits = waitCalls

C33_Witness ==
    /\ attempts = 3
    /\ Len(results) = 3
    /\ allowCalls = 1
    /\ waitCalls = 1
    /\ permits = 1

\* The maxAttempts the loop of doWithRetry runs with: that of the request's
\* Retrier, or of noRetry when the request has none.
EffectiveMaxAttempts == IF retrier.set THEN retrier.maxAttempts ELSE 1

\* C34: when every hook, limiter wait and transport call returns, every Do
\* call returns, after at most max(maxAttempts, 1) transport attempts and
\* at most maxAttempts - 1 backoff waits (none when maxAttempts is below 1),
\* whatever the triggers and the responses.
C34_DoTerminates ==
    /\ <>(pc = "done")
    /\ [](LET n == EffectiveMaxAttempts
          IN  /\ attempts <= (IF n >= 1 THEN n ELSE 1)
              /\ Len(backoffCalls) <= (IF n >= 1 THEN n - 1 ELSE 0))

C34_Witness ==
    /\ pc = "done"
    /\ retrier.maxAttempts = MaxAttempts
    /\ attempts = MaxAttempts
    /\ Len(backoffCalls) = MaxAttempts - 1
    /\ waitCalls = 1
    /\ Len(afterRun) = nAfter
    /\ nAfter >= 1

\* C35: after the attempt on which the pipeline stops (the last one
\* permitted, no trigger matching, or the context already done) the loop
\* returns without regenerating the body and without a backoff wait: the
\* body is as the transport left it and k attempts have had k - 1 waits.
\* Only a wait interrupted by the context ends the loop with k waits.
C35_NoWaitAfterLastAttempt ==
    LoopReturned /\ attempts >= 1
        => \/ /\ Len(backoffCalls) = attempts - 1
              /\ req = ConsumeBody(req)
              /\ timer = "off"
           \/ /\ Len(backoffCalls) = attempts
              /\ ctxDone
              /\ resp.err = "ctx"
              /\ req = RegenerateBody(req)

C35_Witness ==
    /\ LoopReturned
    /\ attempts = 2
    /\ retrier.maxAttempts = 3
    /\ Len(backoffCalls) = 1
    /\ ~ctxDone
    /\ Len(origBody.data) = MaxBodyLen
    /\ req.GetBody.set
    /\ req.Body.data = <<>>

\* C36: after any sequence of SetBody calls the request's body, content
\* length and regeneration function describe the body set last: an
\* in-memory body has its length and a GetBody over its bytes (the
\* sentinel when empty); a stream or nil leaves no GetBody and no content
\* length of an earlier body, and a stream is the request's body as given.
C36_LastBodyDescribed ==
    sbSets >= 1
        => /\ sbLast.type \in InMemoryTypes
                => /\ sbReq.ContentLength = Len(sbLast.data)
                   /\ sbReq.GetBody = (IF Len(sbLast.data) = 0 THEN GetNoBody
                                       ELSE GetReader(sbLast.data))
                   /\ sbReq.Body = (IF Len(sbLast.data) = 0 THEN NoBody
                                    ELSE toReadCloser(sbLast))
           /\ sbLast.type \in {"stream", "nil"}
                => /\ sbReq.ContentLength = 0
                   /\ sbReq.GetBody = NoGetBody
                   /\ sbReq.Body = toReadCloser(sbLast)

\* C37: when GetBody returns an error between two attempts, the pipeline
\* ends with that error in the response and makes no further attempt.
C37_RegenerationErrorEnds ==
    req.GetBody = GetFailing /\ Len(backoffCalls) >= 1
        => /\ attempts = 1
           /\ pc \in {"after", "done"}
           /\ resp.err = "getbody"

\* The attempts whose response body is open: Client.do hands back every
\* response the transport delivered with its body unread and unclosed, and
\* no statement of doWithRetry closes one.
OpenBodies == {k \in 1..Len(results) : results[k].status # 0}

\* C38: a response discarded for a retry has its body closed before the next
\* attempt, so that once Do has returned at most one body is open.
C38_DiscardedBodiesClosed ==
    /\ Cardinality(OpenBodies \ {attempts}) = 0
    /\ pc = "done" => Cardinality(OpenBodies) <= 1

\* The option returns an error.
Fails(opt) == opt.name = "WithJSON" /\ jsonMarshal(opt.data).err

\* Option k is the first one that returns an error.
FirstFailing(k) ==
    /\ k \in 1..Len(opts)
    /\ Fails(opts[k])
    /\ \A j \in 1..(k - 1) : ~Fails(opts[j])

\* C31: when a request option fails, the options after it are not applied
\* and Send returns a response carrying the error: no hook has run, the
\* limiter has not been consulted and no attempt has been made.
C31_OptionErrorEndsSend ==
    \A k \in 1..MaxOptions :
        pc # "call" /\ FirstFailing(k)
            => /\ pc = "done"
               /\ resp = [status |-> 0, err |-> "option"]
               /\ applied = k - 1
               /\ req = ApplyOptions(SubSeq(opts, 1, k - 1), 1, NewBuild).req
               /\ retrier = ApplyOptions(SubSeq(opts, 1, k - 1), 1, NewBuild).retrier
               /\ beforeRun = <<>>
               /\ afterRun = <<>>
               /\ allowCalls = 0
               /\ waitCalls = 0
               /\ attempts = 0

C31_Witness ==
    /\ pc = "done"
    /\ FirstFailing(1)
    /\ Len(opts) = 2
    /\ opts[2].name = "WithRetry"
    /\ client.nBefore >= 1
    /\ client.limiter.attached
    /\ resp.err = "option"

\* C39: the goroutine of a request built with SetMultipart finishes and
\* closes its files: once the call has returned it has finished or the
\* read end of its pipe has been read or closed, and when it has finished
\* every file is closed.
C39_WriterFinishes ==
    /\ mp.started /\ pc = "done" => mp.state = "done" \/ PipeTaken
    /\ mp.state = "done" => mp.closed = mp.files


====
